---- MODULE Spec2Model ----
(***************************************************************************)
(* Model of fat_parser.py: the boot-sector field tables, the format        *)
(* detector get_drive_format, the decoder get_boot_sector_params, the      *)
(* geometry calculator calculate_parameters and the pipeline of main.      *)
(*                                                                         *)
(* A sector is a sequence of bytes (0..255); data[i] is the byte at        *)
(* offset i-1.  Python's unbounded integers are modelled by TLC integers;  *)
(* the sampled field values keep every intermediate result below 2^31.     *)
(***************************************************************************)
EXTENDS Integers, Sequences, FiniteSets, TLC

VARIABLES pc, drive, data, format_name, boot_sector_params,
          calculated_params, err, steps, output

vars == <<pc, drive, data, format_name, boot_sector_params,
          calculated_params, err, steps, output>>

(***************************************************************************)
(* Bounds of the model.                                                    *)
(***************************************************************************)
\* the device holds up to ReadSize + MaxExtra bytes
MaxExtra == 1
\* small values 0..MaxBps of bytes_per_sector, next to 512 and 65535
MaxBps == 1
\* small values 0..MaxRootEnt of root_entity_count, next to 16, 17, 512, 65535
MaxRootEnt == 1
\* values 0..MaxFats of numbers_of_FAT, next to -1
MaxFats == 2

(***************************************************************************)
(* Generic helpers.                                                        *)
(***************************************************************************)
Min(a, b) == IF a < b THEN a ELSE b

\* the value of a Python object that has not been bound yet
Unset == [k \in {} |-> 0]

\* dict.update: the entries of b override and extend those of a
Update(a, b) ==
    [k \in (DOMAIN a) \cup (DOMAIN b) |-> IF k \in DOMAIN b THEN b[k] ELSE a[k]]

\* data[start:end] of Python: both ends are clamped to the length
Slice(d, start, end) == SubSeq(d, Min(start, Len(d)) + 1, Min(end, Len(d)))

\* math.floor(a / b) for b # 0.  The true quotient of two integers below
\* 2^53 is correctly rounded, and a non-integral quotient is at least 1/|b|
\* away from an integer, so the floor of the float is the floor of the
\* exact quotient for every value a boot sector can hold.
FloorTrueDiv(a, b) == IF b > 0 THEN a \div b ELSE (0 - a) \div (0 - b)

(***************************************************************************)
(* The field tables (name -> start offset, end offset, struct format).     *)
(***************************************************************************)
OFFSET_TO_FIELD_MAP ==
    [bytes_per_sector         |-> <<11, 13, "<H">>,
     sectors_per_cluster      |-> <<13, 14, "<b">>,
     reserved_sectors_count   |-> <<14, 16, "<H">>,
     numbers_of_FAT           |-> <<16, 17, "<b">>,
     root_entity_count        |-> <<17, 19, "<H">>,
     total_sectors_16         |-> <<19, 21, "<H">>,
     media                    |-> <<21, 22, "<b">>,
     fat_size_16              |-> <<22, 24, "<H">>,
     sectors_per_track        |-> <<24, 26, "<H">>,
     number_of_heads          |-> <<26, 28, "<H">>,
     number_of_hidden_sectors |-> <<28, 32, "<I">>,
     total_sectors_32         |-> <<32, 36, "<I">>,
     fat_size_32              |-> <<36, 40, "<I">>]

EXFAT_OFFSET_TO_FIELD_MAP ==
    [partition_offset                |-> <<64, 72, "<Q">>,
     volume_length                   |-> <<72, 80, "<Q">>,
     fat_offset                      |-> <<80, 84, "<I">>,
     fat_length                      |-> <<84, 88, "<I">>,
     cluster_heap_offset             |-> <<88, 92, "<I">>,
     cluster_count                   |-> <<92, 96, "<I">>,
     first_cluster_of_root_directory |-> <<96, 100, "<I">>,
     bytes_per_sector_shift          |-> <<108, 109, "<b">>,
     sectors_per_cluster_shift       |-> <<109, 110, "<b">>,
     number_of_fats                  |-> <<110, 111, "<b">>]

FORMATS_MAP == [fat |-> OFFSET_TO_FIELD_MAP, exfat |-> EXFAT_OFFSET_TO_FIELD_MAP]

(***************************************************************************)
(* struct.unpack.                                                          *)
(***************************************************************************)
\* struct.calcsize of the formats the program uses
CalcSize(fmt) ==
    CASE fmt = "<b" -> 1
      [] fmt = "<H" -> 2
      [] fmt = "<I" -> 4
      [] fmt = "<Q" -> 8
      [] fmt = "8s" -> 8

RECURSIVE LittleEndian(_)
\* the unsigned integer whose little-endian representation is bytes
LittleEndian(bytes) ==
    IF bytes = << >> THEN 0 ELSE Head(bytes) + 256 * LittleEndian(Tail(bytes))

\* a variant that reads the one-byte fields as unsigned ("<B" for "<b")
UnpackUnsignedByte(fmt, bytes) ==
    IF Len(bytes) # CalcSize(fmt)
    THEN [ok |-> FALSE, err |-> "struct.error"]
    ELSE IF fmt = "8s"
    THEN [ok |-> TRUE, val |-> bytes]
    ELSE [ok |-> TRUE, val |-> LittleEndian(bytes)]

\* struct.unpack(fmt, bytes)[0]: struct.error unless the buffer has exactly
\* calcsize(fmt) bytes; "<b" is a signed byte, "<H", "<I", "<Q" are unsigned
\* little-endian, "8s" is the bytes themselves
Unpack(fmt, bytes) ==
    IF Len(bytes) # CalcSize(fmt)
    THEN [ok |-> FALSE, err |-> "struct.error"]
    ELSE CASE fmt = "8s" -> [ok |-> TRUE, val |-> bytes]
           [] fmt = "<b" -> [ok |-> TRUE,
                             val |-> IF bytes[1] >= 128 THEN bytes[1] - 256 ELSE bytes[1]]
           [] OTHER      -> [ok |-> TRUE, val |-> LittleEndian(bytes)]

(***************************************************************************)
(* bytes.decode(): strict UTF-8.                                           *)
(***************************************************************************)
IsContinuation(b) == b >= 128 /\ b <= 191

\* length of the well-formed UTF-8 sequence at the head of bytes, 0 if the
\* head is not well formed (invalid start byte, invalid or missing
\* continuation byte, overlong form, surrogate, above U+10FFFF)
UTF8SeqLen(bytes) ==
    LET b1 == bytes[1]
        n  == Len(bytes)
    IN  IF b1 < 128 THEN 1
        ELSE IF b1 >= 194 /\ b1 <= 223
        THEN IF n >= 2 /\ IsContinuation(bytes[2]) THEN 2 ELSE 0
        ELSE IF b1 >= 224 /\ b1 <= 239
        THEN IF /\ n >= 3
                /\ IsContinuation(bytes[2])
                /\ IsContinuation(bytes[3])
                /\ (b1 = 224 => bytes[2] >= 160)
                /\ (b1 = 237 => bytes[2] <= 159)
             THEN 3 ELSE 0
        ELSE IF b1 >= 240 /\ b1 <= 244
        THEN IF /\ n >= 4
                /\ IsContinuation(bytes[2])
                /\ IsContinuation(bytes[3])
                /\ IsContinuation(bytes[4])
                /\ (b1 = 240 => bytes[2] >= 144)
                /\ (b1 = 244 => bytes[2] <= 143)
             THEN 4 ELSE 0
        ELSE 0

\* the code point of the well-formed sequence of length k at the head of bytes
UTF8CodePoint(bytes, k) ==
    CASE k = 1 -> bytes[1]
      [] k = 2 -> (bytes[1] - 192) * 64 + (bytes[2] - 128)
      [] k = 3 -> (bytes[1] - 224) * 4096 + (bytes[2] - 128) * 64 + (bytes[3] - 128)
      [] k = 4 -> (bytes[1] - 240) * 262144 + (bytes[2] - 128) * 4096
                    + (bytes[3] - 128) * 64 + (bytes[4] - 128)

RECURSIVE UTF8Decode(_)
\* bytes.decode(): the sequence of code points, or UnicodeDecodeError
UTF8Decode(bytes) ==
    IF bytes = << >> THEN [ok |-> TRUE, val |-> << >>]
    ELSE LET k == UTF8SeqLen(bytes)
         IN  IF k = 0 THEN [ok |-> FALSE, err |-> "UnicodeDecodeError"]
             ELSE LET rest == UTF8Decode(SubSeq(bytes, k + 1, Len(bytes)))
                  IN  IF ~rest.ok THEN rest
                      ELSE [ok |-> TRUE,
                            val |-> <<UTF8CodePoint(bytes, k)>> \o rest.val]

\* the code points of 'EXFAT'
EXFAT == <<69, 88, 70, 65, 84>>

\* pat in text
Contains(text, pat) ==
    \E i \in 1..(Len(text) - Len(pat) + 1) : SubSeq(text, i, i + Len(pat) - 1) = pat

(***************************************************************************)
(* get_drive_format                                                        *)
(***************************************************************************)
get_drive_format(d) ==
    LET raw == Unpack("8s", Slice(d, 3, 11))
    IN  IF ~raw.ok THEN [ok |-> FALSE, err |-> raw.err]
        ELSE LET text == UTF8Decode(raw.val)
             IN  IF ~text.ok THEN [ok |-> FALSE, err |-> text.err]
                 ELSE [ok |-> TRUE,
                       val |-> IF Contains(text.val, EXFAT) THEN "exfat" ELSE "fat"]

(***************************************************************************)
(* get_boot_sector_params                                                  *)
(***************************************************************************)
get_boot_sector_params(d, fmt_name) ==
    LET offset_to_fields_map == FORMATS_MAP[fmt_name]
        field_value(f) ==
            Unpack(offset_to_fields_map[f][3],
                   Slice(d, offset_to_fields_map[f][1], offset_to_fields_map[f][2]))
    IN  IF \E f \in DOMAIN offset_to_fields_map : ~field_value(f).ok
        THEN [ok |-> FALSE, err |-> "struct.error"]
        ELSE [ok |-> TRUE,
              val |-> [f \in DOMAIN offset_to_fields_map |-> field_value(f).val]]

(***************************************************************************)
(* calculate_parameters: one operator per local variable; each is defined  *)
(* for parameters whose divisors are non-zero.                             *)
(***************************************************************************)
fat_start_sector(p) == p.reserved_sectors_count

\* a variant that gives the 32-bit FAT size precedence
fat_sectors_prefer_32(p) ==
    p.numbers_of_FAT * (IF p.fat_size_32 # 0 THEN p.fat_size_32 ELSE p.fat_size_16)

fat_sectors(p) ==
    p.numbers_of_FAT * (IF p.fat_size_16 # 0 THEN p.fat_size_16 ELSE p.fat_size_32)

root_directory_start_sector(p) == fat_start_sector(p) + fat_sectors(p)

\* a variant that rounds the root directory size down
root_directory_sectors_round_down(p) ==
    FloorTrueDiv(32 * p.root_entity_count, p.bytes_per_sector)

root_directory_sectors(p) ==
    FloorTrueDiv(32 * p.root_entity_count + p.bytes_per_sector - 1, p.bytes_per_sector)

\* a variant that leaves the root directory region out of the header
data_start_sector_without_root(p) == root_directory_start_sector(p)

data_start_sector(p) == root_directory_start_sector(p) + root_directory_sectors(p)

\* a variant that never consults the 32-bit total
data_sectors_only_16(p) == p.total_sectors_16 - data_start_sector(p)

data_sectors(p) ==
    IF p.total_sectors_16 # 0
    THEN p.total_sectors_16 - data_start_sector(p)
    ELSE p.total_sectors_32 - data_start_sector(p)

count_of_clusters(p) == FloorTrueDiv(data_sectors(p), p.sectors_per_cluster)

\* the names locals() holds at line 73 once boot_sector_params is popped
\* (calculated_params itself is not bound yet when locals() is called)
locals_without_params(p, fmt_name) ==
    [format_name                 |-> fmt_name,
     fat_start_sector            |-> fat_start_sector(p),
     fat_sectors                 |-> fat_sectors(p),
     root_directory_start_sector |-> root_directory_start_sector(p),
     root_directory_sectors      |-> root_directory_sectors(p),
     data_start_sector           |-> data_start_sector(p),
     data_sectors                |-> data_sectors(p),
     count_of_clusters           |-> count_of_clusters(p)]

\* a variant in which a zero divisor yields a geometry instead of an error
calculate_parameters_no_zero_check(p, fmt_name) ==
    IF p.bytes_per_sector = 0 \/ p.sectors_per_cluster = 0
    THEN [ok |-> TRUE,
          val |-> [format_name |-> fmt_name,
                   fat_start_sector |-> fat_start_sector(p),
                   fat_sectors |-> fat_sectors(p),
                   root_directory_start_sector |-> root_directory_start_sector(p),
                   root_directory_sectors |-> 0,
                   data_start_sector |-> root_directory_start_sector(p),
                   data_sectors |-> 0,
                   count_of_clusters |-> 0]]
    ELSE [ok |-> TRUE, val |-> locals_without_params(p, fmt_name)]

\* the divisions of lines 64 and 72 raise ZeroDivisionError on a zero divisor
calculate_parameters(p, fmt_name) ==
    IF p.bytes_per_sector = 0 \/ p.sectors_per_cluster = 0
    THEN [ok |-> FALSE, err |-> "ZeroDivisionError"]
    ELSE [ok |-> TRUE, val |-> locals_without_params(p, fmt_name)]

(***************************************************************************)
(* The devices main may be pointed at.  A device is described by its OEM   *)
(* name (offsets 3..10), the values stored in the fields of both tables    *)
(* and its size in bytes; DriveBytes lays the values out little-endian,    *)
(* a negative value of a one-byte field as its two's complement.           *)
(***************************************************************************)
\* file.read(512)
ReadSize == 512

RECURSIVE ByteAt(_, _)
\* byte k (0 = least significant) of the unsigned value v
ByteAt(v, k) == IF k = 0 THEN v % 256 ELSE ByteAt(v \div 256, k - 1)

\* the byte the tables' fields put at offset o, 0 where no field lies
FieldByte(table, values, o) ==
    IF \E f \in DOMAIN table : table[f][1] <= o /\ o < table[f][2]
    THEN LET f == CHOOSE g \in DOMAIN table : table[g][1] <= o /\ o < table[g][2]
             v == values[f]
         IN  ByteAt(IF v < 0 THEN v + 256 ELSE v, o - table[f][1])
    ELSE 0

\* the first dr.size bytes of the device
DriveBytes(dr) ==
    [i \in 1..dr.size |->
        LET o == i - 1
        IN  IF o >= 3 /\ o < 11 THEN dr.oem[o - 2]
            ELSE IF o >= 11 /\ o < 40 THEN FieldByte(OFFSET_TO_FIELD_MAP, dr.fat, o)
            ELSE IF o >= 64 /\ o < 111 THEN FieldByte(EXFAT_OFFSET_TO_FIELD_MAP, dr.exfat, o)
            ELSE IF o = 510 THEN 85
            ELSE IF o = 511 THEN 170
            ELSE 0]

OemMsdos == <<77, 83, 68, 79, 83, 53, 46, 48>>
OemExfat == <<69, 88, 70, 65, 84, 32, 32, 32>>

\* OEM names: plain ASCII with and without 'EXFAT', lower case, a split
\* name, multi-byte UTF-8 next to 'EXFAT', and bytes that are not UTF-8
OemNames ==
    { OemMsdos,
      OemExfat,
      <<32, 32, 69, 88, 70, 65, 84, 32>>,
      <<32, 32, 32, 69, 88, 70, 65, 84>>,
      <<101, 120, 102, 97, 116, 32, 32, 32>>,
      <<69, 88, 70, 65, 32, 84, 32, 32>>,
      <<0, 0, 0, 0, 0, 0, 0, 0>>,
      <<195, 169, 69, 88, 70, 65, 84, 32>>,
      <<226, 130, 172, 69, 88, 70, 65, 84>>,
      <<240, 159, 152, 128, 70, 65, 84, 32>>,
      <<255, 255, 255, 255, 255, 255, 255, 255>>,
      <<128, 69, 88, 70, 65, 84, 32, 32>>,
      <<69, 88, 70, 65, 84, 32, 32, 195>>,
      <<77, 83, 87, 73, 78, 52, 46, 233>> }

\* the FAT32 volume of the end-to-end scenario
BaseFat ==
    [bytes_per_sector         |-> 512,
     sectors_per_cluster      |-> 4,
     reserved_sectors_count   |-> 32,
     numbers_of_FAT           |-> 2,
     root_entity_count        |-> 0,
     total_sectors_16         |-> 0,
     media                    |-> -8,
     fat_size_16              |-> 0,
     sectors_per_track        |-> 63,
     number_of_heads          |-> 255,
     number_of_hidden_sectors |-> 0,
     total_sectors_32         |-> 2000000,
     fat_size_32              |-> 1000]

BaseExfat ==
    [partition_offset                |-> 2048,
     volume_length                   |-> 31250000,
     fat_offset                      |-> 128,
     fat_length                      |-> 1024,
     cluster_heap_offset             |-> 2176,
     cluster_count                   |-> 488247,
     first_cluster_of_root_directory |-> 5,
     bytes_per_sector_shift          |-> 9,
     sectors_per_cluster_shift       |-> 6,
     number_of_fats                  |-> 1]

\* the fields calculate_parameters reads, over small and boundary values
GeometryInputs ==
    [bytes_per_sector         : (0..MaxBps) \cup {512, 65535},
     sectors_per_cluster      : {0, 1, 4, -1},
     reserved_sectors_count   : {1, 32},
     numbers_of_FAT           : (0..MaxFats) \cup {-1},
     root_entity_count        : (0..MaxRootEnt) \cup {16, 17, 512, 65535},
     total_sectors_16         : {0, 2880},
     media                    : {-8},
     fat_size_16              : {0, 9},
     sectors_per_track        : {63},
     number_of_heads          : {255},
     number_of_hidden_sectors : {0},
     total_sectors_32         : {100, 2000000},
     fat_size_32              : {7, 1000}]

\* the fields calculate_parameters does not read
HeaderInputs ==
    [bytes_per_sector         : {512},
     sectors_per_cluster      : {4},
     reserved_sectors_count   : {32},
     numbers_of_FAT           : {2},
     root_entity_count        : {0},
     total_sectors_16         : {0},
     media                    : {-128, -8, 0, 127},
     fat_size_16              : {0},
     sectors_per_track        : {0, 63, 65535},
     number_of_heads          : {0, 255, 65535},
     number_of_hidden_sectors : {0, 2048, 2147483647},
     total_sectors_32         : {2000000, 16909060},
     fat_size_32              : {1000}]

ExfatInputs ==
    [partition_offset                : {0, 16909060},
     volume_length                   : {31250000, 2147483647},
     fat_offset                      : {128, 65536},
     fat_length                      : {1024, 1},
     cluster_heap_offset             : {2176, 16777216},
     cluster_count                   : {488247, 0},
     first_cluster_of_root_directory : {5, 2130706432},
     bytes_per_sector_shift          : {9, -1, 127},
     sectors_per_cluster_shift       : {6, -128, 0},
     number_of_fats                  : {1, 2, -2}]

\* sizes of devices shorter or longer than a sector
OtherSizes == {0, 10, 11, 39, 40, 110, 111, 511} \cup ((ReadSize + 1)..(ReadSize + MaxExtra))

Drives ==
    [oem : OemNames, fat : {BaseFat}, exfat : {BaseExfat}, size : {ReadSize}]
    \cup [oem : {OemMsdos}, fat : GeometryInputs \cup HeaderInputs,
          exfat : {BaseExfat}, size : {ReadSize}]
    \cup [oem : {OemExfat}, fat : {BaseFat}, exfat : ExfatInputs, size : {ReadSize}]
    \cup [oem : {OemMsdos, OemExfat}, fat : {BaseFat}, exfat : {BaseExfat},
          size : OtherSizes]

NoDrive == [oem |-> << >>, fat |-> Unset, exfat |-> Unset, size |-> 0]

(***************************************************************************)
(* main, lines 90-97.                                                      *)
(***************************************************************************)
Init ==
    /\ pc = "open"
    /\ drive = NoDrive
    /\ data = << >>
    /\ format_name = "unset"
    /\ boot_sector_params = Unset
    /\ calculated_params = Unset
    /\ err = "none"
    /\ steps = << >>
    /\ output = Unset

\* lines 90-91: open the device and read at most 512 bytes
Read ==
    /\ pc = "open"
    /\ \E dr \in Drives :
          /\ drive' = dr
          /\ data' = Slice(DriveBytes(dr), 0, ReadSize)
    /\ pc' = "read"
    /\ UNCHANGED <<format_name, boot_sector_params, calculated_params, err, steps, output>>

\* line 92: format_name = get_drive_format(data)
Detect ==
    /\ pc = "read"
    /\ steps' = Append(steps, "detect")
    /\ LET r == get_drive_format(data)
       IN  IF r.ok
           THEN /\ format_name' = r.val
                /\ pc' = "detected"
                /\ err' = err
           ELSE /\ format_name' = format_name
                /\ pc' = "failed"
                /\ err' = r.err
    /\ UNCHANGED <<drive, data, boot_sector_params, calculated_params, output>>

\* line 93: boot_sector_params = get_boot_sector_params(data, format_name)
Decode ==
    /\ pc = "detected"
    /\ steps' = Append(steps, "decode")
    /\ LET r == get_boot_sector_params(data, format_name)
       IN  IF r.ok
           THEN /\ boot_sector_params' = r.val
                /\ pc' = "decoded"
                /\ err' = err
           ELSE /\ boot_sector_params' = boot_sector_params
                /\ pc' = "failed"
                /\ err' = r.err
    /\ UNCHANGED <<drive, data, format_name, calculated_params, output>>

\* lines 94-96: for a format other than exfat, compute the geometry and
\* merge it into boot_sector_params
Calculate ==
    /\ pc = "decoded"
    /\ format_name # "exfat"
    /\ steps' = Append(steps, "calculate")
    /\ LET r == calculate_parameters(boot_sector_params, format_name)
       IN  IF r.ok
           THEN /\ calculated_params' = r.val
                /\ boot_sector_params' = Update(boot_sector_params, r.val)
                /\ pc' = "calculated"
                /\ err' = err
           ELSE /\ calculated_params' = calculated_params
                /\ boot_sector_params' = boot_sector_params
                /\ pc' = "failed"
                /\ err' = r.err
    /\ UNCHANGED <<drive, data, format_name, output>>

\* line 97: print_dictionary(boot_sector_params)
print_dictionary ==
    /\ \/ pc = "calculated"
       \/ pc = "decoded" /\ format_name = "exfat"
    /\ output' = boot_sector_params
    /\ pc' = "done"
    /\ UNCHANGED <<drive, data, format_name, boot_sector_params, calculated_params,
                   err, steps>>

Next == Read \/ Detect \/ Decode \/ Calculate \/ print_dictionary

Spec == Init /\ [][Next]_vars

(***************************************************************************)
(* Vocabulary of the properties.                                           *)
(***************************************************************************)
\* calculate_parameters has returned for the sector in data
GeometryReturned == pc \in {"calculated", "done"} /\ format_name = "fat"

\* get_drive_format has been called on data (it returned or raised)
DetectRan == Len(steps) >= 1

\* get_boot_sector_params has been called on data (it returned or raised)
DecodeRan == Len(steps) >= 2

\* calculate_parameters has been called (it returned or raised)
CalculateRan == Len(steps) >= 3

\* the least k with k * d >= n, for n >= 0 and d > 0
Ceiling(n, d) == IF n % d = 0 THEN n \div d ELSE (n \div d) + 1

\* c is the floor of the rational n / d, for d # 0
IsFloorOfQuotient(c, n, d) ==
    IF d > 0
    THEN c * d <= n /\ n < (c + 1) * d
    ELSE c * d >= n /\ n > (c + 1) * d

GeometryNames ==
    {"fat_start_sector", "fat_sectors", "root_directory_start_sector",
     "root_directory_sectors", "data_start_sector", "data_sectors",
     "count_of_clusters"}

\* the values the device stores in the fields of the table of format fmt_name
Stored(fmt_name) == IF fmt_name = "exfat" THEN drive.exfat ELSE drive.fat

(***************************************************************************)
(* C1.  On a 512-byte FAT16 sector (fat_size_16 # 0) with                  *)
(* total_sectors_16 # 0 the geometry is computed from the 16-bit fields:   *)
(* fat_sectors = numbers_of_FAT * fat_size_16 and data_sectors =           *)
(* total_sectors_16 - data_start_sector, whatever fat_size_32 and          *)
(* total_sectors_32 hold.                                                  *)
(***************************************************************************)
C1_Fat16UsesSixteenBitFields ==
    (/\ GeometryReturned
     /\ Len(data) = 512
     /\ drive.fat.fat_size_16 # 0
     /\ drive.fat.total_sectors_16 # 0)
    => /\ calculated_params.fat_sectors
            = drive.fat.numbers_of_FAT * drive.fat.fat_size_16
       /\ calculated_params.data_sectors
            = drive.fat.total_sectors_16 - calculated_params.data_start_sector

C1_Witness ==
    /\ pc = "done"
    /\ format_name = "fat"
    /\ Len(data) = 512
    /\ drive.fat.fat_size_16 = 9
    /\ drive.fat.total_sectors_16 = 2880
    /\ drive.fat.fat_size_32 = 1000
    /\ drive.fat.total_sectors_32 = 2000000
    /\ calculated_params.fat_sectors = 18
    /\ calculated_params.data_sectors = 2880 - calculated_params.data_start_sector

(***************************************************************************)
(* C2 as stated.  On a 512-byte sector with total_sectors_16 = 0 and       *)
(* fat_size_16 = 0 the geometry is computed from total_sectors_32 and      *)
(* fat_size_32, and root_directory_sectors is 0.                           *)
(***************************************************************************)
C2_Original ==
    (/\ GeometryReturned
     /\ Len(data) = 512
     /\ drive.fat.fat_size_16 = 0
     /\ drive.fat.total_sectors_16 = 0)
    => /\ calculated_params.fat_sectors
            = drive.fat.numbers_of_FAT * drive.fat.fat_size_32
       /\ calculated_params.data_sectors
            = drive.fat.total_sectors_32 - calculated_params.data_start_sector
       /\ calculated_params.root_directory_sectors = 0

(***************************************************************************)
(* C2 amended.  On a 512-byte sector with total_sectors_16 = 0 and         *)
(* fat_size_16 = 0 the geometry is computed from total_sectors_32 and      *)
(* fat_size_32; root_directory_sectors is 0 when root_entity_count is 0.   *)
(***************************************************************************)
C2_Fat32UsesThirtyTwoBitFields ==
    (/\ GeometryReturned
     /\ Len(data) = 512
     /\ drive.fat.fat_size_16 = 0
     /\ drive.fat.total_sectors_16 = 0)
    => /\ calculated_params.fat_sectors
            = drive.fat.numbers_of_FAT * drive.fat.fat_size_32
       /\ calculated_params.data_sectors
            = drive.fat.total_sectors_32 - calculated_params.data_start_sector
       /\ (drive.fat.root_entity_count = 0
             => calculated_params.root_directory_sectors = 0)

C2_Witness ==
    /\ pc = "done"
    /\ format_name = "fat"
    /\ Len(data) = 512
    /\ drive.fat.fat_size_16 = 0
    /\ drive.fat.total_sectors_16 = 0
    /\ drive.fat.root_entity_count = 0
    /\ drive.fat.fat_size_32 = 7
    /\ drive.fat.numbers_of_FAT = 2
    /\ calculated_params.fat_sectors = 14
    /\ calculated_params.root_directory_sectors = 0

(***************************************************************************)
(* C3.  With bytes_per_sector > 0 the returned root_directory_sectors is   *)
(* the ceiling of 32 * root_entity_count / bytes_per_sector; 512 entries   *)
(* of a 512-byte-sector volume take 32 sectors.                            *)
(***************************************************************************)
C3_RootDirectorySectorsIsCeiling ==
    (GeometryReturned /\ boot_sector_params.bytes_per_sector > 0)
    => /\ calculated_params.root_directory_sectors
            = Ceiling(32 * boot_sector_params.root_entity_count,
                      boot_sector_params.bytes_per_sector)
       /\ (/\ boot_sector_params.root_entity_count = 512
           /\ boot_sector_params.bytes_per_sector = 512)
          => calculated_params.root_directory_sectors = 32

C3_Witness ==
    /\ GeometryReturned
    /\ boot_sector_params.root_entity_count = 17
    /\ boot_sector_params.bytes_per_sector = 512
    /\ calculated_params.root_directory_sectors = 2

(***************************************************************************)
(* C4.  The returned geometry satisfies fat_start_sector =                 *)
(* reserved_sectors_count, root_directory_start_sector = fat_start_sector  *)
(* + fat_sectors, data_start_sector = root_directory_start_sector +        *)
(* root_directory_sectors and count_of_clusters = floor(data_sectors /     *)
(* sectors_per_cluster); the end-to-end scenario gives 32, 2000, 2032, 0,  *)
(* 2032, 1997968 and 499492.                                               *)
(***************************************************************************)
C4_GeometryRelations ==
    GeometryReturned
    => /\ calculated_params.fat_start_sector
            = boot_sector_params.reserved_sectors_count
       /\ calculated_params.root_directory_start_sector
            = calculated_params.fat_start_sector + calculated_params.fat_sectors
       /\ calculated_params.data_start_sector
            = calculated_params.root_directory_start_sector
              + calculated_params.root_directory_sectors
       /\ IsFloorOfQuotient(calculated_params.count_of_clusters,
                            calculated_params.data_sectors,
                            boot_sector_params.sectors_per_cluster)
       /\ (drive.fat = BaseFat /\ Len(data) = 512)
          => /\ calculated_params.fat_start_sector = 32
             /\ calculated_params.fat_sectors = 2000
             /\ calculated_params.root_directory_start_sector = 2032
             /\ calculated_params.root_directory_sectors = 0
             /\ calculated_params.data_start_sector = 2032
             /\ calculated_params.data_sectors = 1997968
             /\ calculated_params.count_of_clusters = 499492

C4_Witness ==
    /\ pc = "done"
    /\ format_name = "fat"
    /\ Len(data) = 512
    /\ drive.fat = BaseFat
    /\ output.count_of_clusters = 499492
    /\ output.data_start_sector = 2032

(***************************************************************************)
(* C5 as stated.  On a 512-byte sector get_drive_format never fails, and   *)
(* it returns exfat exactly when the bytes at offsets 3..10 are ASCII text *)
(* containing 'EXFAT'; otherwise it returns fat.                           *)
(***************************************************************************)
C5_DetectorIsTotal ==
    (DetectRan /\ Len(data) = 512)
    => LET oem == Slice(data, 3, 11)
           ascii_with_exfat ==
               /\ \A i \in 1..Len(oem) : oem[i] < 128
               /\ Contains(oem, EXFAT)
       IN  /\ format_name \in {"fat", "exfat"}
           /\ format_name = "exfat" <=> ascii_with_exfat

(***************************************************************************)
(* C6 as stated.  get_boot_sector_params on an input that is not exactly   *)
(* 512 bytes long fails with TruncatedSector and produces no mapping.      *)
(***************************************************************************)
C6_WrongLengthIsRejected ==
    (DecodeRan /\ Len(data) # 512)
    => /\ pc = "failed"
       /\ err = "TruncatedSector"
       /\ boot_sector_params = Unset

(***************************************************************************)
(* C7 as stated.  calculate_parameters never returns a geometry holding a  *)
(* negative sector or cluster count; it fails with NegativeGeometry        *)
(* instead.                                                                *)
(***************************************************************************)
C7_NoNegativeGeometry ==
    /\ GeometryReturned
       => /\ calculated_params.fat_sectors >= 0
          /\ calculated_params.root_directory_sectors >= 0
          /\ calculated_params.data_sectors >= 0
          /\ calculated_params.count_of_clusters >= 0
    /\ (CalculateRan /\ pc = "failed")
       => err \in {"NegativeGeometry", "ZeroDivisionError"}

(***************************************************************************)
(* C8.  When bytes_per_sector or sectors_per_cluster is zero,              *)
(* calculate_parameters fails with a division-by-zero error: no geometry   *)
(* is returned, merged or printed.                                         *)
(***************************************************************************)
C8_ZeroDivisorFails ==
    (/\ CalculateRan
     /\ \/ boot_sector_params.bytes_per_sector = 0
        \/ boot_sector_params.sectors_per_cluster = 0)
    => /\ pc = "failed"
       /\ err = "ZeroDivisionError"
       /\ calculated_params = Unset
       /\ DOMAIN boot_sector_params = DOMAIN OFFSET_TO_FIELD_MAP
       /\ output = Unset

C8_Witness ==
    /\ CalculateRan
    /\ boot_sector_params.bytes_per_sector = 512
    /\ boot_sector_params.sectors_per_cluster = 0
    /\ pc = "failed"
    /\ err = "ZeroDivisionError"

(***************************************************************************)
(* C9.  Round trip: decoding a 512-byte sector that stores in-range values *)
(* little-endian at the offsets of the detected format's table returns     *)
(* exactly those values, one entry per field of the table, the one-byte    *)
(* signed fields sign-extended.                                            *)
(***************************************************************************)
C9_DecodeRoundTrip ==
    (pc = "decoded" /\ Len(data) = 512)
    => /\ DOMAIN boot_sector_params = DOMAIN FORMATS_MAP[format_name]
       /\ \A f \in DOMAIN FORMATS_MAP[format_name] :
             boot_sector_params[f] = Stored(format_name)[f]

C9_Witness ==
    /\ pc = "decoded"
    /\ Len(data) = 512
    /\ format_name = "exfat"
    /\ data[110] = 128
    /\ boot_sector_params.sectors_per_cluster_shift = -128
    /\ boot_sector_params.partition_offset = 16909060
    /\ boot_sector_params.number_of_fats = -2

(***************************************************************************)
(* C10 as stated.  The steps run in the order detect, decode and, for fat  *)
(* only, calculate; the result of an exfat sector has exactly the keys of  *)
(* the exFAT table, the result of a fat sector exactly the keys of the FAT *)
(* table and the seven derived quantities.                                 *)
(***************************************************************************)
C10_OrderAndKeys ==
    /\ \A i \in 1..Len(steps) : steps[i] = <<"detect", "decode", "calculate">>[i]
    /\ (CalculateRan => format_name = "fat")
    /\ pc = "done"
       => IF format_name = "exfat"
          THEN /\ steps = <<"detect", "decode">>
               /\ DOMAIN output = DOMAIN EXFAT_OFFSET_TO_FIELD_MAP
          ELSE /\ steps = <<"detect", "decode", "calculate">>
               /\ DOMAIN output = (DOMAIN OFFSET_TO_FIELD_MAP) \cup GeometryNames

====
